---------------------------- MODULE Spec2Model ----------------------------
(***************************************************************************)
(* Model of motif_liquidator: the ScoreMatrix scan (score_matrix.h), the   *)
(* exact p-value table of a scaled matrix, and the driver of               *)
(* motif_liquidator.m.cpp (process_command_line, process_fasta, BamScorer  *)
(* and main).                                                              *)
(*                                                                         *)
(* Numbers.  Probabilities are exact rationals: a background distribution  *)
(* is a tuple of four positive integer weights w, the probability of base  *)
(* b being w[b] / Total(w).  A probability over L rows is kept as its      *)
(* numerator over Total(w)^L.  The double NAN of an unscorable window is   *)
(* the value NaN, which compares false with everything.  A real score      *)
(* total / scale + min_before_scaling * L is kept as its numerator         *)
(* total + min_num * L over the matrix's scale.                            *)
(***************************************************************************)
EXTENDS Integers, Sequences, FiniteSets, TLC

\* ------------------------------------------------------------------------
\* Alphabet utilities
\* ------------------------------------------------------------------------

\* Number of symbols of the nucleotide alphabet.
AlphabetSize == 4

\* Column of a base letter, case-insensitive; AlphabetSize + 1 for any other
\* symbol (columns are 1-based here, 0-based in the program).
alphabet_index(base) ==
    CASE base \in {"A", "a"} -> 1
      [] base \in {"C", "c"} -> 2
      [] base \in {"G", "g"} -> 3
      [] base \in {"T", "t"} -> 4
      [] OTHER -> AlphabetSize + 1

Columns == 1..AlphabetSize

\* std::toupper on the symbols the model uses.
ToUpper(ch) ==
    CASE ch = "a" -> "A"
      [] ch = "c" -> "C"
      [] ch = "g" -> "G"
      [] ch = "t" -> "T"
      [] OTHER -> ch

\* A double that holds a probability: NAN, or the numerator of the
\* probability.  NAN compares false with everything.
NaN == [nan |-> TRUE, numerator |-> 0]

Probability(numerator) == [nan |-> FALSE, numerator |-> numerator]

\* ------------------------------------------------------------------------
\* Bounds of the model
\* ------------------------------------------------------------------------

\* p-value table development: rows of a matrix, and the sum of all its cells.
MaxRows == 3
MaxTotal == 3

\* Background distributions, as integer weights: the default uniform one, one
\* a background file can declare in which A is rare (1/15001), and a generic
\* one for the development of the table.
UniformBackground == <<1, 1, 1, 1>>
SkewedBackground == <<1, 5000, 5000, 5000>>
GradedBackground == <<1, 2, 3, 4>>
Backgrounds == {UniformBackground, GradedBackground}

Total(w) == w[1] + w[2] + w[3] + w[4]

RECURSIVE Power(_, _)
Power(x, n) == IF n = 0 THEN 1 ELSE x * Power(x, n - 1)

Max2(a, b) == IF a >= b THEN a ELSE b

\* ------------------------------------------------------------------------
\* Exact p-value table (dynamic programming)
\* ------------------------------------------------------------------------

RowMax(row) == Max2(Max2(row[1], row[2]), Max2(row[3], row[4]))

RowSum(row) == row[1] + row[2] + row[3] + row[4]

RECURSIVE CellSum(_)
CellSum(rows) ==
    IF rows = <<>> THEN 0 ELSE RowSum(Head(rows)) + CellSum(Tail(rows))

RECURSIVE MaxSum(_)
MaxSum(rows) ==
    IF rows = <<>> THEN 0 ELSE RowMax(Head(rows)) + MaxSum(Tail(rows))

\* Mass at sum s contributed by one column of one row.
ColumnMass(mass, row, background, s, c) ==
    IF s - row[c] \in DOMAIN mass THEN mass[s - row[c]] * background[c] ELSE 0

\* Step 1: the distribution after row 0.
InitialMass(row, background) ==
    [s \in 0..RowMax(row) |->
        (IF row[1] = s THEN background[1] ELSE 0)
      + (IF row[2] = s THEN background[2] ELSE 0)
      + (IF row[3] = s THEN background[3] ELSE 0)
      + (IF row[4] = s THEN background[4] ELSE 0)]

\* A variant that writes each base's mass over the cell instead of adding.
ConvolveOverwriting(mass, row, background, top) ==
    [s \in 0..(top + RowMax(row)) |->
        IF \E c \in Columns : s - row[c] \in DOMAIN mass
        THEN LET c == CHOOSE d \in Columns : s - row[d] \in DOMAIN mass
             IN  mass[s - row[c]] * background[c]
        ELSE 0]

\* Step 2: the running distribution (over 0..top) convolved with one row,
\* into a freshly sized array.
Convolve(mass, row, background, top) ==
    [s \in 0..(top + RowMax(row)) |->
        ColumnMass(mass, row, background, s, 1)
      + ColumnMass(mass, row, background, s, 2)
      + ColumnMass(mass, row, background, s, 3)
      + ColumnMass(mass, row, background, s, 4)]

\* A variant that stores the mass without the running sum above it.
AccumulateDroppingSum(mass, pv, s, top) ==
    mass[s]

\* Step 3, one index: pvalue[s] = pvalue[s+1] + mass[s], pvalue[top+1] = 0.
AccumulateAt(mass, pv, s, top) ==
    mass[s] + (IF s = top THEN 0 ELSE pv[s + 1])

RECURSIVE MassOf(_, _, _)
\* The distribution after the first n rows.
MassOf(rows, background, n) ==
    IF n = 1
    THEN InitialMass(rows[1], background)
    ELSE Convolve(MassOf(rows, background, n - 1), rows[n], background,
                  MaxSum(SubSeq(rows, 1, n - 1)))

RECURSIVE SurvivalFrom(_, _, _)
\* The survival function of a distribution over 0..top, filled from s down.
SurvivalFrom(mass, s, top) ==
    LET above == IF s = top THEN << >> ELSE SurvivalFrom(mass, s + 1, top)
        pv == [t \in (s + 1)..top |-> above[t]]
    IN  [t \in s..top |-> IF t = s THEN AccumulateAt(mass, pv, s, top) ELSE above[t]]

\* The whole table of a matrix: m_pvalues.
PValueTable(rows, background) ==
    SurvivalFrom(MassOf(rows, background, Len(rows)), 0, MaxSum(rows))


\* The probability that the rows from r on, one base drawn per row from the
\* background, add up to at least s: the sum over all base strings, by
\* enumeration of the strings.
RECURSIVE ExactTail(_, _, _, _)
ExactTail(rows, background, r, s) ==
    IF r > Len(rows)
    THEN (IF s <= 0 THEN 1 ELSE 0)
    ELSE background[1] * ExactTail(rows, background, r + 1, s - rows[r][1])
       + background[2] * ExactTail(rows, background, r + 1, s - rows[r][2])
       + background[3] * ExactTail(rows, background, r + 1, s - rows[r][3])
       + background[4] * ExactTail(rows, background, r + 1, s - rows[r][4])

\* ------------------------------------------------------------------------
\* Score matrices and the sliding-window scan
\* ------------------------------------------------------------------------

\* Integer resolution of the scaled matrix: the scaled value of the largest
\* log-odds cell (the smallest scales to 0).
Range == 2

\* Scaled rows of a motif given by its consensus word: the consensus base of a
\* row holds the largest log-odds value of the matrix, every other base the
\* smallest.
ConsensusRows(word) ==
    [r \in 1..Len(word) |->
        [c \in Columns |-> IF c = alphabet_index(word[r]) THEN Range ELSE 0]]

\* Rows of the reverse-complement strand: row order reversed, and within a
\* row A<->T and C<->G swapped.
ReverseComplementRows(rows) ==
    [r \in 1..Len(rows) |->
        [c \in Columns |-> rows[Len(rows) + 1 - r][AlphabetSize + 1 - c]]]

\* A constructed ScoreMatrix.  min_scaled is m_min_before_scaling in units of
\* 1 / m_scale: below zero, and smaller in size than the range.
ScoreMatrix(name, background, rows, is_reverse_complement) ==
    [name |-> name,
     is_reverse_complement |-> is_reverse_complement,
     background |-> background,
     matrix |-> rows,
     min_scaled |-> 1 - Range,
     pvalues |-> PValueTable(rows, background)]

\* ScoreMatrix::read with include_reverse_complement = true: for every motif
\* of the stream, the forward matrix and then its reverse complement.
RECURSIVE ReadMatrices(_, _)
ReadMatrices(words, background) ==
    IF words = << >>
    THEN << >>
    ELSE <<ScoreMatrix(Head(words), background, ConsensusRows(Head(words)), FALSE),
           ScoreMatrix(Head(words), background,
                       ReverseComplementRows(ConsensusRows(Head(words))), TRUE)>>
         \o ReadMatrices(Tail(words), background)

\* Sum of the scaled cells of the window [begin, end_) of the sequence
\* (0-based, half open), rows from r on.
RECURSIVE WindowTotal(_, _, _, _)
WindowTotal(rows, sequence, begin, r) ==
    IF r > Len(rows)
    THEN 0
    ELSE rows[r][alphabet_index(sequence[begin + r])]
         + WindowTotal(rows, sequence, begin, r + 1)

\* A variant that gives an unscorable window the lowest score of the table.
ScoreSequenceClamping(m, sequence, begin, end_) ==
    IF \E i \in (begin + 1)..end_ : alphabet_index(sequence[i]) > AlphabetSize
    THEN [begin |-> begin, end_ |-> end_, pvalue |-> Probability(m.pvalues[0]),
          score |-> m.min_scaled * Len(m.matrix)]
    ELSE LET total == WindowTotal(m.matrix, sequence, begin, 1)
         IN  [begin |-> begin, end_ |-> end_, pvalue |-> Probability(m.pvalues[total]),
              score |-> total + m.min_scaled * Len(m.matrix)]

\* ScoreMatrix::score_sequence: the Score of one window.
score_sequence(m, sequence, begin, end_) ==
    IF \E i \in (begin + 1)..end_ : alphabet_index(sequence[i]) > AlphabetSize
    THEN [begin |-> begin, end_ |-> end_, pvalue |-> NaN, score |-> 0]
    ELSE LET total == WindowTotal(m.matrix, sequence, begin, 1)
         IN  [begin |-> begin, end_ |-> end_, pvalue |-> Probability(m.pvalues[total]),
              score |-> total + m.min_scaled * Len(m.matrix)]

\* A variant of the loop condition that stops one window early.
ScoreLoopStopsEarly(stop, sequence) == stop < Len(sequence)

\* ScoreMatrix::score: the condition of the loop over the windows.
ScoreLoopCondition(stop, sequence) == stop <= Len(sequence)

\* ------------------------------------------------------------------------
\* The driver's pure parts
\* ------------------------------------------------------------------------

\* The significance cutoff 0.0001, as 1 / PValueCutoffInverse.
PValueCutoffInverse == 10000

\* A variant that takes "not (pvalue >= 0.0001)" for "pvalue < 0.0001".
IsHitUnlessAbove(pvalue, background, length) ==
    IF pvalue.nan
    THEN TRUE
    ELSE pvalue.numerator < (Power(Total(background), length) + PValueCutoffInverse - 1)
                               \div PValueCutoffInverse

\* score.pvalue() < 0.0001, for a p-value kept as a numerator over
\* Total(background)^length; false for NaN.
IsHit(pvalue, background, length) ==
    IF pvalue.nan
    THEN FALSE
    ELSE pvalue.numerator < (Power(Total(background), length) + PValueCutoffInverse - 1)
                               \div PValueCutoffInverse

\* bam_nt16_rev_table: the letter of a 4-bit base code.
bam_nt16_rev_table(code) ==
    <<"=", "A", "C", "M", "G", "R", "S", "V", "T", "W", "Y", "H", "K", "D", "B", "N">>[code + 1]

\* unmapped(read): bit 4 of the flag.
unmapped(read) == read.flag_unmapped

\* Names of the options and positional arguments boost::program_options knows.
OptionNames ==
    {"background", "help", "output", "region", "unmapped-only", "verbose",
     "motif", "fasta_or_bam"}

\* vm.count(name): how often an option was given on the command line.
VmCount(given, name) == IF name \in given THEN 1 ELSE 0

Extensions == {".bam", ".fasta", ".txt"}

\* process_command_line: the return code and the out-parameters, for the
\* options given, the input file's extension, and whether the command line
\* parses, the motif file opens and the background file opens and reads.
\* The out-parameters are set as far as the function gets; a background file
\* declares the skewed background.  The verbose flag only adds printing, which
\* is not part of the state.
process_command_line(given, extension, parses, motif_opens, background_reads) ==
    LET input_type == CASE extension = ".bam" -> "bam_input_type"
                        [] extension = ".fasta" -> "fasta_input_type"
                        [] OTHER -> "invalid_input_type"
        code ==
            IF ~parses THEN 1
            ELSE IF VmCount(given, "help") # 0 THEN 1
            ELSE IF VmCount(given, "motif") # 1 \/ VmCount(given, "fasta_or_bam") # 1 THEN 1
            ELSE IF input_type = "invalid_input_type" THEN 1
            ELSE IF VmCount(given, "region_file_path") # 0 /\ input_type # "bam_input_type" THEN 1
            ELSE IF ~motif_opens THEN 1
            ELSE IF VmCount(given, "background") # 0 /\ ~background_reads THEN 1
            ELSE 0
        notified == /\ parses
                    /\ VmCount(given, "help") = 0
                    /\ VmCount(given, "motif") = 1
                    /\ VmCount(given, "fasta_or_bam") = 1
    IN  [rc |-> code,
         input_type |-> IF notified THEN input_type ELSE "invalid_input_type",
         region_file_path |-> IF notified /\ VmCount(given, "region") # 0
                              THEN "regions.bed" ELSE "",
         output_file_path |-> IF notified /\ VmCount(given, "output") # 0
                              THEN "matches.out" ELSE "",
         unmapped_only |-> code = 0 /\ VmCount(given, "unmapped-only") > 0,
         background_array |-> IF code = 0 /\ VmCount(given, "background") # 0
                              THEN SkewedBackground ELSE UniformBackground]

\* What went wrong with a command line and its files, as far as
\* process_command_line gets to see them: usage errors of the command line
\* itself, and the files it tried to open.
CommandLineErrors(given, extension, parses, motif_opens, background_reads) ==
    LET positional == "motif" \in given /\ "fasta_or_bam" \in given
        usage ==
            (IF ~parses THEN {"bad_option"} ELSE {})
            \cup (IF ~positional THEN {"missing_positional"} ELSE {})
            \cup (IF positional /\ extension \notin {".bam", ".fasta"}
                  THEN {"unsupported_extension"} ELSE {})
            \cup (IF positional /\ "region" \in given /\ extension # ".bam"
                  THEN {"region_without_bam"} ELSE {})
        opened == /\ parses
                  /\ "help" \notin given
                  /\ positional
                  /\ extension \in {".bam", ".fasta"}
    IN  usage
        \cup (IF opened /\ ~motif_opens THEN {"motif_unopenable"} ELSE {})
        \cup (IF opened /\ motif_opens /\ "background" \in given /\ ~background_reads
              THEN {"background_unopenable"} ELSE {})

\* Motif streams the loader is given: one motif each, by consensus word.
MotifFiles == {<< <<"A">> >>, << <<"A", "A">> >>, << <<"A", "C">> >>}

\* Letters of a FASTA record, and base codes of an alignment record
\* (A, C and N).
FastaLetters == {"A", "C", "a", "N"}
ReadCodes == {1, 2, 15}

\* Longest FASTA sequence, longest read, and most reads of a run.
MaxSequenceLength == 3
MaxReadLength == 2
MaxReads == 2

SequencesOver(letters, longest) == UNION {[1..n -> letters] : n \in 0..longest}

\* The sequences a FASTA file holds: every one up to the bound, and "ACAC".
FastaSequences ==
    SequencesOver(FastaLetters, MaxSequenceLength) \cup {<<"A", "C", "A", "C">>}

\* ------------------------------------------------------------------------
\* State
\* ------------------------------------------------------------------------

VARIABLES
    \* construction of one matrix's p-value table
    m_matrix,        \* rows of scaled cells read so far
    m_background,    \* background weights
    m_pvalues,       \* the table, filled from the high end
    mass,            \* running distribution over partial sums
    row_count,       \* rows folded into mass
    next_index,      \* next index of m_pvalues to fill
    table_pc,        \* "rows", "convolve", "accumulate", "built", "failed", "idle"
    \* main and its locals
    pc,              \* position of the program
    rc,              \* exit status of main, once it has returned
    input_type,
    region_file_path,
    output_file_path,
    unmapped_only,
    background_array,
    matrices,
    \* the scan under way
    sequence,        \* the sequence buffer (process_fasta's sequence, m_sequence)
    matrix_index,    \* position of the loop over the matrices
    start,           \* ScoreMatrix::score's loop variables
    stop,
    \* BamScorer
    read,            \* the record bam_read1 / bam_fetch last delivered
    m_read,          \* "null" or "read": what m_read points to
    m_output,        \* "null" or "open"
    m_read_count,
    m_unmapped_count,
    m_read_hit_count,
    m_unmapped_hit_count,
    m_total_hit_count,
    hit_count_before_this_read,
    \* what the program has done so far
    calls,           \* consumer invocations for the sequence in the buffer
    written,         \* ids of the records written to the output alignment file
    errors,          \* usage and I/O errors that have occurred
    completed,       \* the run scanned its input to the end
    statistics       \* what ~BamScorer computed for its printout

tvars == <<m_matrix, m_background, m_pvalues, mass, row_count, next_index, table_pc>>

mainvars == <<input_type, region_file_path, output_file_path, unmapped_only,
              background_array, matrices>>

scanvars == <<sequence, matrix_index, start, stop>>

countvars == <<m_read_count, m_unmapped_count, m_read_hit_count,
               m_unmapped_hit_count, m_total_hit_count>>

bamvars == <<read, m_read, m_output, hit_count_before_this_read>>

dvars == <<pc, rc, mainvars, scanvars, countvars, bamvars, calls, written, errors,
           completed, statistics>>

vars == <<tvars, dvars>>

Rows == [Columns -> 0..MaxTotal]

\* ------------------------------------------------------------------------
\* Construction of the p-value table, step by step
\* ------------------------------------------------------------------------

TableIdle ==
    /\ m_matrix = << >>
    /\ m_background = UniformBackground
    /\ m_pvalues = << >>
    /\ mass = << >>
    /\ row_count = 0
    /\ next_index = 0
    /\ table_pc = "idle"

TableInit ==
    /\ m_matrix = << >>
    /\ m_background \in Backgrounds
    /\ m_pvalues = << >>
    /\ mass = << >>
    /\ row_count = 0
    /\ next_index = 0
    /\ table_pc = "rows"

\* The loader hands one more row of the matrix.
ReadRow ==
    /\ table_pc = "rows"
    /\ Len(m_matrix) < MaxRows
    /\ \E row \in Rows :
        /\ CellSum(m_matrix) + RowSum(row) <= MaxTotal
        /\ m_matrix' = Append(m_matrix, row)
    /\ UNCHANGED <<m_background, m_pvalues, mass, row_count, next_index, table_pc>>
    /\ UNCHANGED dvars

\* A matrix with zero rows is refused.
RejectEmpty ==
    /\ table_pc = "rows"
    /\ Len(m_matrix) = 0
    /\ table_pc' = "failed"
    /\ UNCHANGED <<m_matrix, m_background, m_pvalues, mass, row_count, next_index>>
    /\ UNCHANGED dvars

\* Row 0 initializes the distribution.
BeginTable ==
    /\ table_pc = "rows"
    /\ Len(m_matrix) >= 1
    /\ mass' = InitialMass(m_matrix[1], m_background)
    /\ row_count' = 1
    /\ next_index' = MaxSum(m_matrix)
    /\ table_pc' = IF Len(m_matrix) = 1 THEN "accumulate" ELSE "convolve"
    /\ UNCHANGED <<m_matrix, m_background, m_pvalues>>
    /\ UNCHANGED dvars

\* One subsequent row is convolved into the distribution.
ConvolveRow ==
    /\ table_pc = "convolve"
    /\ row_count < Len(m_matrix)
    /\ mass' = Convolve(mass, m_matrix[row_count + 1], m_background,
                        MaxSum(SubSeq(m_matrix, 1, row_count)))
    /\ row_count' = row_count + 1
    /\ table_pc' = IF row_count + 1 = Len(m_matrix) THEN "accumulate" ELSE "convolve"
    /\ UNCHANGED <<m_matrix, m_background, m_pvalues, next_index>>
    /\ UNCHANGED dvars

\* One index of the survival function, from the highest down.
AccumulateStep ==
    /\ table_pc = "accumulate"
    /\ m_pvalues' = [t \in next_index..MaxSum(m_matrix) |->
                        IF t = next_index
                        THEN AccumulateAt(mass, m_pvalues, next_index, MaxSum(m_matrix))
                        ELSE m_pvalues[t]]
    /\ next_index' = next_index - 1
    /\ table_pc' = IF next_index = 0 THEN "built" ELSE "accumulate"
    /\ UNCHANGED <<m_matrix, m_background, mass, row_count>>
    /\ UNCHANGED dvars

TableNext == ReadRow \/ RejectEmpty \/ BeginTable \/ ConvolveRow \/ AccumulateStep

\* ------------------------------------------------------------------------
\* main: command line, matrices, and the two kinds of input
\* ------------------------------------------------------------------------

\* upper - lower in size_t: the difference, or, when upper < lower, 2^64 less
\* the distance; wrapped tells which of the two value stands for.
UnsignedDifference(upper, lower) ==
    [wrapped |-> upper < lower,
     value   |-> IF upper < lower THEN lower - upper ELSE upper - lower]

\* Nothing has been printed: no BamScorer has been destroyed.
NoStatistics ==
    [printed      |-> FALSE,
     mapped       |-> FALSE,
     mapped_hits  |-> UnsignedDifference(0, 0),
     mapped_reads |-> UnsignedDifference(0, 0)]

\* ~BamScorer: the values it hands to print_percent for the mapped reads,
\* which it prints unless only unmapped reads were scored.
PrintStatistics(only_score_unmapped, reads, unmapped_reads, hits, unmapped_hits) ==
    IF only_score_unmapped
    THEN [NoStatistics EXCEPT !.printed = TRUE]
    ELSE [printed      |-> TRUE,
          mapped       |-> TRUE,
          mapped_hits  |-> UnsignedDifference(hits, unmapped_hits),
          mapped_reads |-> UnsignedDifference(reads, unmapped_reads)]

DriverStart(at) ==
    /\ pc = at
    /\ rc = 0
    /\ input_type = "invalid_input_type"
    /\ region_file_path = ""
    /\ output_file_path = ""
    /\ unmapped_only = FALSE
    /\ background_array = UniformBackground
    /\ matrices = << >>
    /\ sequence = << >>
    /\ matrix_index = 1
    /\ start = 1
    /\ stop = 0
    /\ read = [id |-> 0, flag_unmapped |-> FALSE]
    /\ m_read = "null"
    /\ m_output = "null"
    /\ m_read_count = 0
    /\ m_unmapped_count = 0
    /\ m_read_hit_count = 0
    /\ m_unmapped_hit_count = 0
    /\ m_total_hit_count = 0
    /\ hit_count_before_this_read = 0
    /\ calls = << >>
    /\ written = << >>
    /\ errors = {}
    /\ completed = FALSE
    /\ statistics = NoStatistics

DriverInit == DriverStart("main")

DriverIdle == DriverStart("idle")

\* Length of the matrix at position i of the list, 0 past its end.
LengthAt(i) == IF i <= Len(matrices) THEN Len(matrices[i].matrix) ELSE 0

\* main calls process_command_line and returns its code if it is not 0.
ProcessCommandLine ==
    /\ pc = "main"
    /\ \E given \in SUBSET OptionNames, extension \in Extensions,
          parses \in BOOLEAN, motif_opens \in BOOLEAN, background_reads \in BOOLEAN :
        LET out == process_command_line(given, extension, parses, motif_opens,
                                        background_reads)
        IN  /\ rc' = out.rc
            /\ pc' = IF out.rc # 0 THEN "exit" ELSE "load"
            /\ input_type' = out.input_type
            /\ region_file_path' = out.region_file_path
            /\ output_file_path' = out.output_file_path
            /\ unmapped_only' = out.unmapped_only
            /\ background_array' = out.background_array
            /\ errors' = CommandLineErrors(given, extension, parses, motif_opens,
                                           background_reads)
    /\ UNCHANGED <<matrices, scanvars, countvars, bamvars, calls, written, completed, statistics>>
    /\ UNCHANGED tvars

\* main reads the matrices and hands over to the scorer of the input type; an
\* exception of the loader ends main with 1.
LoadMatrices ==
    /\ pc = "load"
    /\ \E loads \in BOOLEAN, words \in MotifFiles :
        IF loads
        THEN /\ matrices' = ReadMatrices(words, background_array)
             /\ pc' = IF input_type = "bam_input_type" THEN "bam_open" ELSE "fasta_open"
             /\ UNCHANGED <<rc, errors>>
        ELSE /\ rc' = 1
             /\ pc' = "exit"
             /\ errors' = errors \cup {"matrix_load_failed"}
             /\ UNCHANGED matrices
    /\ UNCHANGED <<input_type, region_file_path, output_file_path, unmapped_only,
                   background_array, scanvars, countvars, bamvars, calls, written,
                   completed, statistics>>
    /\ UNCHANGED tvars

\* BamScorer's constructor up to its loop.  An input that does not open
\* throws.  An output that does not open leaves m_output null, and
\* bam_header_write is called on it all the same: the behaviour is undefined
\* from there on, and nothing more is said about the run.
BamOpen ==
    /\ pc = "bam_open"
    /\ \E input_opens \in BOOLEAN, output_opens \in BOOLEAN :
        IF ~input_opens
        THEN /\ rc' = 1
             /\ pc' = "exit"
             /\ errors' = errors \cup {"input_unopenable"}
             /\ UNCHANGED m_output
        ELSE IF output_file_path = ""
        THEN /\ pc' = "bam_next"
             /\ UNCHANGED <<rc, errors, m_output>>
        ELSE IF output_opens
        THEN /\ pc' = "bam_next"
             /\ m_output' = "open"
             /\ UNCHANGED <<rc, errors>>
        ELSE /\ pc' = "undefined"
             /\ errors' = errors \cup {"output_unopenable"}
             /\ UNCHANGED <<rc, m_output>>
    /\ UNCHANGED <<mainvars, scanvars, countvars, read, m_read,
                   hit_count_before_this_read, calls, written, completed, statistics>>
    /\ UNCHANGED tvars

\* A variant of score_read that scores every record.
ReadIsSkippedNever(read_unmapped, only_score_unmapped) == FALSE

\* score_read returns early for a mapped record when only unmapped ones are
\* scored.
ReadIsSkipped(read_unmapped, only_score_unmapped) ==
    ~read_unmapped /\ only_score_unmapped

\* score_all_reads / bam_fetch deliver one more record, and score_read runs
\* up to its loop over the matrices: it counts the record, returns for a
\* mapped one when only unmapped ones are scored, and else decodes the bases
\* into m_sequence.
BamRead ==
    /\ pc = "bam_next"
    /\ m_read_count < MaxReads
    /\ \E codes \in SequencesOver(ReadCodes, MaxReadLength), flag \in BOOLEAN :
        /\ read' = [id |-> m_read_count + 1, flag_unmapped |-> flag]
        /\ m_read_count' = m_read_count + 1
        /\ m_unmapped_count' = IF flag THEN m_unmapped_count + 1 ELSE m_unmapped_count
        /\ IF ReadIsSkipped(flag, unmapped_only)
           THEN UNCHANGED <<pc, scanvars, m_read, hit_count_before_this_read, calls>>
           ELSE /\ sequence' = [i \in 1..Len(codes) |-> bam_nt16_rev_table(codes[i])]
                /\ hit_count_before_this_read' = m_total_hit_count
                /\ m_read' = "read"
                /\ matrix_index' = 1
                /\ start' = 1
                /\ stop' = LengthAt(1)
                /\ calls' = << >>
                /\ pc' = "scan"
    /\ UNCHANGED <<rc, mainvars, m_read_hit_count, m_unmapped_hit_count,
                   m_total_hit_count, m_output, written, errors, completed, statistics>>
    /\ UNCHANGED tvars

\* BamScorer::operator(): the hit count after one Score.
BamScorerCall(hits, score, m) ==
    IF IsHit(score.pvalue, m.background, Len(m.matrix)) THEN hits + 1 ELSE hits

\* One turn of the loop of ScoreMatrix::score: the window is scored and the
\* consumer is called with it.
ScoreWindow ==
    /\ pc = "scan"
    /\ matrix_index <= Len(matrices)
    /\ ScoreLoopCondition(stop, sequence)
    /\ LET m == matrices[matrix_index]
           score == score_sequence(m, sequence, start - 1, stop)
       IN  /\ calls' = Append(calls, [motif_name |-> m.name,
                                      forward |-> ~m.is_reverse_complement,
                                      matrix |-> matrix_index,
                                      start |-> start,
                                      stop |-> stop,
                                      score |-> score])
           /\ m_total_hit_count' = IF input_type = "bam_input_type"
                                   THEN BamScorerCall(m_total_hit_count, score, m)
                                   ELSE m_total_hit_count
    /\ start' = start + 1
    /\ stop' = stop + 1
    /\ UNCHANGED <<pc, rc, mainvars, sequence, matrix_index, m_read_count,
                   m_unmapped_count, m_read_hit_count, m_unmapped_hit_count, bamvars,
                   written, errors, completed, statistics>>
    /\ UNCHANGED tvars

\* The loop of one matrix is over; the loop over the matrices goes on.
NextMatrix ==
    /\ pc = "scan"
    /\ matrix_index <= Len(matrices)
    /\ ~ScoreLoopCondition(stop, sequence)
    /\ matrix_index' = matrix_index + 1
    /\ start' = 1
    /\ stop' = LengthAt(matrix_index + 1)
    /\ UNCHANGED <<pc, rc, mainvars, sequence, countvars, bamvars, calls, written,
                   errors, completed, statistics>>
    /\ UNCHANGED tvars

\* A variant that writes every scanned record.
ReadIsWrittenAlways(before, after) == TRUE

\* score_read after the matrices: whether the record counts as a hit.
ReadIsHit(before, after) == after > before

\* score_read after its loop over the matrices.
FinishRead ==
    /\ pc = "scan"
    /\ matrix_index > Len(matrices)
    /\ input_type = "bam_input_type"
    /\ IF ReadIsHit(hit_count_before_this_read, m_total_hit_count)
       THEN /\ m_read_hit_count' = m_read_hit_count + 1
            /\ m_unmapped_hit_count' = IF unmapped(read) THEN m_unmapped_hit_count + 1
                                       ELSE m_unmapped_hit_count
            /\ written' = IF m_output # "null" THEN Append(written, read.id) ELSE written
       ELSE UNCHANGED <<m_read_hit_count, m_unmapped_hit_count, written>>
    /\ pc' = "bam_next"
    /\ UNCHANGED <<rc, mainvars, scanvars, m_read_count, m_unmapped_count,
                   m_total_hit_count, bamvars, calls, errors, completed, statistics>>
    /\ UNCHANGED tvars

\* The records are exhausted: the constructor returns, the temporary is
\* destroyed, which prints the statistics, and main returns 0.
BamEnd ==
    /\ pc = "bam_next"
    /\ rc' = 0
    /\ completed' = TRUE
    /\ pc' = "exit"
    /\ statistics' = PrintStatistics(unmapped_only, m_read_count, m_unmapped_count,
                                     m_read_hit_count, m_unmapped_hit_count)
    /\ UNCHANGED <<mainvars, scanvars, countvars, bamvars, calls, written, errors>>
    /\ UNCHANGED tvars

\* score_regions throws: the region list does not parse, or a fetch fails.
BamRegionFailure ==
    /\ pc = "bam_next"
    /\ region_file_path # ""
    /\ \E kind \in {"region_parse_failed", "fetch_failed"} :
        errors' = errors \cup {kind}
    /\ rc' = 1
    /\ pc' = "exit"
    /\ UNCHANGED <<mainvars, scanvars, countvars, bamvars, calls, written, completed, statistics>>
    /\ UNCHANGED tvars

\* process_fasta up to its loop: an input that does not open throws; the
\* output stream is not looked at.
FastaOpen ==
    /\ pc = "fasta_open"
    /\ \E input_opens \in BOOLEAN, output_opens \in BOOLEAN :
        IF ~input_opens
        THEN /\ rc' = 1
             /\ pc' = "exit"
             /\ errors' = errors \cup {"input_unopenable"}
        ELSE /\ pc' = "fasta_next"
             /\ errors' = IF output_file_path # "" /\ ~output_opens
                          THEN errors \cup {"output_unopenable"} ELSE errors
             /\ UNCHANGED rc
    /\ UNCHANGED <<mainvars, scanvars, countvars, bamvars, calls, written, completed, statistics>>
    /\ UNCHANGED tvars

\* next_read delivers one more sequence into the buffer.
FastaNextRead ==
    /\ pc = "fasta_next"
    /\ \E letters \in FastaSequences :
        sequence' = letters
    /\ matrix_index' = 1
    /\ start' = 1
    /\ stop' = LengthAt(1)
    /\ calls' = << >>
    /\ pc' = "scan"
    /\ UNCHANGED <<rc, mainvars, countvars, bamvars, written, errors, completed, statistics>>
    /\ UNCHANGED tvars

\* The loop over the matrices is over for a FASTA sequence.
FinishSequence ==
    /\ pc = "scan"
    /\ matrix_index > Len(matrices)
    /\ input_type = "fasta_input_type"
    /\ pc' = "fasta_next"
    /\ UNCHANGED <<rc, mainvars, scanvars, countvars, bamvars, calls, written, errors,
                   completed, statistics>>
    /\ UNCHANGED tvars

\* next_read has no more sequences: process_fasta and main return.
FastaEnd ==
    /\ pc = "fasta_next"
    /\ rc' = 0
    /\ completed' = TRUE
    /\ pc' = "exit"
    /\ UNCHANGED <<mainvars, scanvars, countvars, bamvars, calls, written, errors,
                   statistics>>
    /\ UNCHANGED tvars

Init == DriverInit /\ TableIdle

Next ==
    \/ ProcessCommandLine
    \/ LoadMatrices
    \/ BamOpen
    \/ BamRead
    \/ ScoreWindow
    \/ NextMatrix
    \/ FinishRead
    \/ BamEnd
    \/ BamRegionFailure
    \/ FastaOpen
    \/ FastaNextRead
    \/ FinishSequence
    \/ FastaEnd

Spec == Init /\ [][Next]_vars

TableSpecInit == TableInit /\ DriverIdle

SpecTable == TableSpecInit /\ [][TableNext]_vars

\* ------------------------------------------------------------------------
\* Properties of the p-value table
\* ------------------------------------------------------------------------

\* C3: the table built by the row-by-row convolution and the high-to-low
\* accumulation is the exact survival function: it has an entry for every s
\* in 0..max_sum, and entry s is the total background probability of the
\* base strings whose cells add up to at least s.
C3_TableIsExactSurvival ==
    table_pc = "built" =>
        /\ DOMAIN m_pvalues = 0..MaxSum(m_matrix)
        /\ \A s \in 0..MaxSum(m_matrix) :
               m_pvalues[s] = ExactTail(m_matrix, m_background, 1, s)

\* A finished table of a matrix of several rows, each with a scoring cell, so
\* that different base strings reach the same sum, under a non-uniform
\* background.
C3_Witness ==
    /\ table_pc = "built"
    /\ Len(m_matrix) >= 2
    /\ m_background = GradedBackground
    /\ \E s \in 1..MaxSum(m_matrix) : m_pvalues[s] < m_pvalues[s - 1]
    /\ RowMax(m_matrix[1]) >= 1 /\ RowMax(m_matrix[2]) >= 1

\* C4: the table is non-increasing in the score, in every entry filled so far.
C4_TableNonIncreasing ==
    table_pc \in {"accumulate", "built"} =>
        \A s \in DOMAIN m_pvalues :
            (s + 1) \in DOMAIN m_pvalues => m_pvalues[s] >= m_pvalues[s + 1]

\* A finished table with at least three entries that strictly decreases
\* somewhere.
C4_Witness ==
    /\ table_pc = "built"
    /\ MaxSum(m_matrix) >= 2
    /\ m_pvalues[0] > m_pvalues[MaxSum(m_matrix)]


\* ------------------------------------------------------------------------
\* Properties of the scan
\* ------------------------------------------------------------------------

\* Windows of length len fully inside a sequence of n symbols.
WindowCount(n, len) == IF n >= len THEN n - len + 1 ELSE 0

\* The consumer invocations made by the matrix at position j of the list.
CallsOf(j) == SelectSeq(calls, LAMBDA c : c.matrix = j)

\* The scan of the matrix at position j over the buffer is over.
ScanOver(j) ==
    /\ pc \in {"scan", "bam_next", "fasta_next", "exit"}
    /\ j <= Len(matrices)
    /\ j < matrix_index

\* C1: a matrix of length L >= 1 calls the consumer once per window fully
\* inside the sequence, left to right: the k-th call is for window
\* [k-1, k-1+L) with 1-based start k and stop k+L-1, and a finished scan of a
\* sequence of n symbols has made exactly max(0, n-L+1) calls (one for n = L,
\* none for n < L).
C1_OneCallPerWindowInOrder ==
    \A j \in 1..Len(matrices) :
        LET len == Len(matrices[j].matrix)
            made == CallsOf(j)
        IN  /\ len >= 1
            /\ \A k \in 1..Len(made) :
                   /\ made[k].start = k
                   /\ made[k].stop = k + len - 1
                   /\ made[k].score.begin = k - 1
                   /\ made[k].score.end_ = k - 1 + len
            /\ Len(made) <= WindowCount(Len(sequence), len)
            /\ ScanOver(j) => Len(made) = WindowCount(Len(sequence), len)

\* Finished scans of one sequence by a list of two matrices of length 2: of
\* three symbols (two calls each), of two (one call each), of one (none).
C1_Witness ==
    /\ pc = "scan"
    /\ Len(matrices) = 2
    /\ matrix_index = 3
    /\ LengthAt(1) = 2
    /\ Len(sequence) = 3
    /\ Len(CallsOf(1)) = 2
    /\ Len(CallsOf(2)) = 2
    /\ calls[2].start = 2 /\ calls[2].stop = 3

ValidLetters == {"A", "C", "G", "T", "a", "c", "g", "t"}

\* The letters of the window a call was made for.
WindowOf(c) == SubSeq(sequence, c.score.begin + 1, c.score.end_)

HasInvalidLetter(w) == \E i \in 1..Len(w) : w[i] \notin ValidLetters

\* Column of a valid letter, by its upper-case form.
ColumnOfLetter(ch) == CHOOSE c \in Columns : <<"A", "C", "G", "T">>[c] = ToUpper(ch)

RECURSIVE CellsOfWord(_, _, _)
\* Sum of the cells a word of valid letters selects, rows from r on.
CellsOfWord(rows, w, r) ==
    IF r > Len(rows) THEN 0
    ELSE rows[r][ColumnOfLetter(w[r])] + CellsOfWord(rows, w, r + 1)

\* C2: a window with a symbol outside A/C/G/T (either case) yields pvalue =
\* NaN and score = 0; every other window yields the score and the p-value of
\* its own letters (the probability of scoring at least its total), whatever
\* its neighbours hold; and invalid symbols change nothing about the number
\* of Scores delivered.
C2_InvalidWindowsAreAbsorbed ==
    /\ \A k \in 1..Len(calls) :
           LET c == calls[k]
               m == matrices[c.matrix]
               w == WindowOf(c)
           IN  IF HasInvalidLetter(w)
               THEN c.score.pvalue = NaN /\ c.score.score = 0
               ELSE /\ ~c.score.pvalue.nan
                    /\ c.score.pvalue.numerator =
                           ExactTail(m.matrix, m.background, 1, CellsOfWord(m.matrix, w, 1))
                    /\ c.score.score =
                           CellsOfWord(m.matrix, w, 1) + m.min_scaled * Len(m.matrix)
    /\ \A j \in 1..Len(matrices) :
           ScanOver(j) =>
               Len(CallsOf(j)) = WindowCount(Len(sequence), Len(matrices[j].matrix))

\* A finished scan in which an unscorable window lies between two scorable
\* windows of the same matrix, one of them in lower case.
C2_Witness ==
    /\ pc = "scan"
    /\ matrix_index > Len(matrices)
    /\ Len(calls) >= 3
    /\ calls[1].matrix = 1 /\ calls[3].matrix = 1
    /\ ~calls[1].score.pvalue.nan
    /\ calls[2].score.pvalue.nan
    /\ ~calls[3].score.pvalue.nan
    /\ sequence[1] = "a"

\* The motif "AC" under the uniform background has been loaded and its
\* forward matrix has finished scanning "ACAC".
ScannedACAC ==
    /\ matrices = ReadMatrices(<< <<"A", "C">> >>, UniformBackground)
    /\ sequence = <<"A", "C", "A", "C">>
    /\ ScanOver(1)

\* C7 as stated: scanning "ACAC" with the matrix for "AC" produces exactly two
\* Scores, for windows [0,2) and [2,4), equal in score and p-value.
C7_TwoScoresAsStated ==
    ScannedACAC =>
        LET made == CallsOf(1)
        IN  /\ Len(made) = 2
            /\ made[1].score.begin = 0 /\ made[1].score.end_ = 2
            /\ made[2].score.begin = 2 /\ made[2].score.end_ = 4
            /\ made[1].score.score = made[2].score.score
            /\ made[1].score.pvalue = made[2].score.pvalue

\* C7, amended: scanning "ACAC" with the matrix for "AC" produces exactly
\* three Scores, for windows [0,2), [1,3) and [2,4); the first and the third,
\* which both read "AC", are equal in score and p-value, and both are
\* scorable.
C7_ThreeScoresOuterTwoEqual ==
    ScannedACAC =>
        LET made == CallsOf(1)
        IN  /\ Len(made) = 3
            /\ made[1].score.begin = 0 /\ made[1].score.end_ = 2
            /\ made[2].score.begin = 1 /\ made[2].score.end_ = 3
            /\ made[3].score.begin = 2 /\ made[3].score.end_ = 4
            /\ made[1].score.score = made[3].score.score
            /\ made[1].score.pvalue = made[3].score.pvalue
            /\ ~made[1].score.pvalue.nan

\* "ACAC" has been scanned by the forward matrix of "AC", and the middle
\* window "CA" scored differently from the outer two.
C7_Witness ==
    /\ ScannedACAC
    /\ input_type = "fasta_input_type"
    /\ Len(CallsOf(1)) = 3
    /\ CallsOf(1)[2].score.score # CallsOf(1)[1].score.score


\* ------------------------------------------------------------------------
\* Properties of the driver
\* ------------------------------------------------------------------------

\* The program asks its source for the next sequence (or finds it exhausted).
AtRequest == pc \in {"bam_next", "fasta_next"}

RECURSIVE WindowsFrom(_, _, _)
\* The windows matrix j is to deliver for the buffer, from the k-th on, as
\* pairs of the matrix's position and the 1-based start.
WindowsFrom(j, k, n) ==
    IF k > n THEN << >> ELSE << <<j, k>> >> \o WindowsFrom(j, k + 1, n)

RECURSIVE DeliveriesFrom(_)
\* Every delivery due for the buffer, matrices in list order from j on.
DeliveriesFrom(j) ==
    IF j > Len(matrices)
    THEN << >>
    ELSE WindowsFrom(j, 1, WindowCount(Len(sequence), Len(matrices[j].matrix)))
         \o DeliveriesFrom(j + 1)

Delivered == [k \in 1..Len(calls) |-> <<calls[k].matrix, calls[k].start>>]

\* C5: sequences are processed strictly one at a time.  Whenever the driver
\* asks its source for the next sequence, every matrix has scanned the
\* sequence in the buffer, matrices in list order, and every Score of it has
\* been delivered; each window is delivered in the step that scores it; and
\* the buffer changes only when the next sequence is asked for.
C5_OneSequenceAtATime ==
    /\ [](AtRequest => Delivered = DeliveriesFrom(1))
    /\ [][/\ sequence' # sequence => AtRequest
          /\ (pc = "scan" /\ start' = start + 1) =>
                 /\ calls' = Append(calls, calls'[Len(calls')])
                 /\ calls'[Len(calls')].matrix = matrix_index
                 /\ calls'[Len(calls')].start = start
                 /\ WindowOf(calls'[Len(calls')]) =
                        SubSeq(sequence, start, start + LengthAt(matrix_index) - 1)
          /\ (~AtRequest /\ calls' # calls) => Len(calls') = Len(calls) + 1]_vars

\* The second read of an alignment file is asked for after the first was
\* scanned by both matrices, two windows each.
C5_Witness ==
    /\ pc = "bam_next"
    /\ m_read_count = 1
    /\ Len(matrices) = 2
    /\ Len(calls) = 4
    /\ calls[2].matrix = 1 /\ calls[3].matrix = 2

\* pvalue < 0.0001, for a p-value numerator / denominator, by division.
BelowCutoff(numerator, denominator) ==
    \/ numerator = 0
    \/ /\ numerator > 0
       /\ \/ denominator \div numerator > PValueCutoffInverse
          \/ /\ denominator \div numerator = PValueCutoffInverse
             /\ denominator % numerator > 0

\* A delivered Score is a significant match.
Significant(c) ==
    /\ ~c.score.pvalue.nan
    /\ BelowCutoff(c.score.pvalue.numerator,
                   Power(Total(matrices[c.matrix].background),
                         Len(matrices[c.matrix].matrix)))

\* C6: in alignment-record mode a Score raises m_total_hit_count by one
\* exactly when its pvalue is a number below 0.0001, and a NaN pvalue or one
\* of at least 0.0001 changes no counter; a read counts as a hit read only if
\* one of its Scores was significant.
C6_OnlySignificantScoresCount ==
    [][/\ (input_type = "bam_input_type" /\ pc = "scan" /\ calls' # calls) =>
              /\ m_total_hit_count' =
                     IF Significant(calls'[Len(calls')])
                     THEN m_total_hit_count + 1 ELSE m_total_hit_count
              /\ UNCHANGED <<m_read_count, m_unmapped_count, m_read_hit_count,
                             m_unmapped_hit_count>>
       /\ m_read_hit_count' # m_read_hit_count =>
              \E k \in 1..Len(calls) : Significant(calls[k])]_vars

\* An alignment read has delivered an unscorable Score, a scorable one that is
\* not significant and a significant one, and one hit is counted.
C6_Witness ==
    /\ input_type = "bam_input_type"
    /\ pc = "scan"
    /\ m_total_hit_count = 1
    /\ \E k \in 1..Len(calls) : calls[k].score.pvalue.nan
    /\ \E k \in 1..Len(calls) : Significant(calls[k])
    /\ \E k \in 1..Len(calls) : ~calls[k].score.pvalue.nan /\ ~Significant(calls[k])

\* score_read is done with the record it was given.
ReadFinishes == pc = "scan" /\ pc' = "bam_next"

\* C8: with an output file open, a read is written once, as it is, when its
\* scan is over, if one of its Scores was significant, and is not written
\* otherwise; the output holds the written reads in the order of processing,
\* none twice; nothing is written without an output file.
C8_HitReadsWrittenOnce ==
    /\ [][/\ ReadFinishes =>
                 /\ written' =
                        IF m_output = "open" /\ \E k \in 1..Len(calls) : Significant(calls[k])
                        THEN Append(written, read.id) ELSE written
                 /\ read.id = m_read_count
                 /\ read' = read
          /\ ~ReadFinishes => written' = written]_vars
    /\ [](\A i \in 1..Len(written) :
              /\ written[i] \in 1..m_read_count
              /\ \A j \in 1..Len(written) : i < j => written[i] < written[j])
    /\ [](output_file_path = "" => written = << >>)

\* Of two reads the first had no significant Score and the second had two:
\* only the second is in the output, once.
C8_Witness ==
    /\ pc = "bam_next"
    /\ m_output = "open"
    /\ m_read_count = 2
    /\ written = <<2>>
    /\ m_total_hit_count = 2
    /\ m_read_hit_count = 1

\* C9: the exit status is non-zero whenever a usage or I/O error occurred, and
\* zero exactly when the run completed without one.
C9_ExitStatusTellsErrors ==
    pc = "exit" =>
        /\ errors # {} => rc # 0
        /\ rc = 0 <=> (completed /\ errors = {})

\* C10: a region filter with an input that is not a .bam file makes
\* process_command_line return non-zero, so no matrix is loaded and nothing
\* is scanned.
C10_RegionNeedsBam ==
    (region_file_path # "" /\ input_type = "fasta_input_type") =>
        /\ pc = "exit"
        /\ rc # 0
        /\ matrices = << >>
        /\ calls = << >>

\* Every Score in the consumer's log is the one score_sequence gives for its
\* matrix and window of the sequence in the buffer.
ScoresAreOfSequence ==
    \A k \in 1..Len(calls) :
        calls[k].score = score_sequence(matrices[calls[k].matrix], sequence,
                                        calls[k].start - 1, calls[k].stop)

\* score_read has just returned early for a mapped record.
MappedReadArrives ==
    /\ pc = "bam_next"
    /\ unmapped_only
    /\ m_read_count' # m_read_count
    /\ ~unmapped(read')

\* C11: with the unmapped-only option, score_read for a mapped read raises
\* m_read_count by one and changes nothing else: no matrix scans it, the
\* consumer is not called, no hit counter moves and the read is not written;
\* an unmapped read is scanned by every matrix, window by window, as it is
\* without the option.
C11_UnmappedOnlySkipsMappedReads ==
    /\ [][MappedReadArrives =>
              /\ m_read_count' = m_read_count + 1
              /\ pc' = "bam_next"
              /\ UNCHANGED <<m_unmapped_count, m_read_hit_count, m_unmapped_hit_count,
                             m_total_hit_count, hit_count_before_this_read, scanvars,
                             calls, written, m_read, m_output>>]_vars
    /\ []((pc = "scan" /\ input_type = "bam_input_type" /\ unmapped_only) =>
              unmapped(read))
    /\ [][(ReadFinishes /\ unmapped(read)) =>
              /\ Delivered = DeliveriesFrom(1)
              /\ ScoresAreOfSequence]_vars
    /\ [][(pc = "bam_next" /\ m_read_count' # m_read_count /\ unmapped(read')) =>
              /\ pc' = "scan"
              /\ calls' = << >>
              /\ matrix_index' = 1
              /\ m_unmapped_count' = m_unmapped_count + 1]_vars

\* With the option set, an unmapped read was scanned, hit and was written, and
\* the mapped read after it was only counted.
C11_Witness ==
    /\ unmapped_only
    /\ pc = "bam_next"
    /\ m_read_count = 2
    /\ m_unmapped_count = 1
    /\ read = [id |-> 2, flag_unmapped |-> FALSE]
    /\ m_read_hit_count = 1
    /\ m_unmapped_hit_count = 1
    /\ m_total_hit_count >= 1
    /\ written = <<1>>
    /\ calls # << >>

\* The inequalities between the counters of BamScorer.
CountersAreOrdered ==
    /\ m_unmapped_hit_count <= m_read_hit_count
    /\ m_read_hit_count <= m_read_count
    /\ m_unmapped_hit_count <= m_unmapped_count
    /\ m_unmapped_count <= m_read_count
    /\ m_read_hit_count <= m_total_hit_count
    /\ m_read_hit_count - m_unmapped_hit_count <= m_read_count - m_unmapped_count

\* C12: whatever reads BamScorer has processed, m_unmapped_hit_count <=
\* m_read_hit_count <= m_read_count, m_unmapped_hit_count <= m_unmapped_count
\* <= m_read_count, m_read_hit_count <= m_total_hit_count and the mapped hit
\* reads are no more than the mapped reads; m_read_hit_count only moves when
\* score_read is done with a read, and then by one, however many Scores of
\* the read were significant; so the two subtractions of the statistics
\* printout do not wrap and give the numbers of mapped hit reads and of
\* mapped reads.
C12_CountersOrderedNoUnderflow ==
    /\ []CountersAreOrdered
    /\ [][m_read_hit_count' # m_read_hit_count =>
              /\ ReadFinishes
              /\ m_read_hit_count' = m_read_hit_count + 1
              /\ m_unmapped_hit_count' =
                     m_unmapped_hit_count + (IF unmapped(read) THEN 1 ELSE 0)]_vars
    /\ [][m_unmapped_hit_count' # m_unmapped_hit_count =>
              m_read_hit_count' # m_read_hit_count]_vars
    /\ [](statistics.mapped =>
              /\ ~statistics.mapped_hits.wrapped
              /\ ~statistics.mapped_reads.wrapped
              /\ statistics.mapped_hits.value = m_read_hit_count - m_unmapped_hit_count
              /\ statistics.mapped_reads.value = m_read_count - m_unmapped_count
              /\ statistics.mapped_hits.value <= statistics.mapped_reads.value)
    /\ [](statistics.printed <=> (pc = "exit" /\ completed
                                     /\ input_type = "bam_input_type"))

\* The statistics were printed after a mapped and an unmapped read that both
\* hit, one of them with more than one significant Score.
C12_Witness ==
    /\ pc = "exit"
    /\ statistics.mapped
    /\ m_read_count = 2
    /\ m_unmapped_count = 1
    /\ m_read_hit_count = 2
    /\ m_unmapped_hit_count = 1
    /\ m_total_hit_count > 2
    /\ statistics.mapped_hits.value = 1
    /\ statistics.mapped_reads.value = 1

=============================================================================
